---- MODULE Spec2Model ----
(***************************************************************************)
(* Model of src/main.py: the run controller (main and                      *)
(* process_board_by_article_numbers), the approval gate                    *)
(* (get_user_confirmation), the comment generator (get_chatgpt_comment),   *)
(* the content extractor (visit_post) and the submission engine            *)
(* (post_comment, process_comment_input, click_submit_button).             *)
(*                                                                         *)
(* Strings are sequences of one-character strings.  The character "ga"     *)
(* stands for a Hangul syllable (the range U+AC00..U+D7A3 of the regular   *)
(* expression at line 409).                                                *)
(***************************************************************************)
EXTENDS Integers, Sequences, FiniteSets, TLC

(***************************************************************************)
(* Bounds of the model.  max_comment_count and max_attempts_per_board are  *)
(* the values main passes (60 at line 752, 500 at line 773), scaled down.  *)
(***************************************************************************)
max_comment_count == 2

max_attempts_per_board == 2

MaxCollected == 3

MaxReprompts == 1

(***************************************************************************)
(* Program constants.                                                      *)
(***************************************************************************)
MAX_PAGES_TO_SCAN == 5

NumBoards == 2

(***************************************************************************)
(* Text: characters, str.strip, str.upper.                                 *)
(***************************************************************************)
IsSpace(c) == c \in {" ", "\t", "\n"}

IsHangul(c) == c = "ga"

IsLatin(c) == c \in {"a", "f", "i", "k", "n", "o", "x", "y",
                     "A", "F", "I", "K", "N", "O", "X", "Y"}

IsDigit(c) == c \in {"0", "7"}

RECURSIVE LStrip(_)
LStrip(s) == IF s # <<>> /\ IsSpace(Head(s)) THEN LStrip(Tail(s)) ELSE s

RECURSIVE RStrip(_)
RStrip(s) ==
    IF s # <<>> /\ IsSpace(s[Len(s)]) THEN RStrip(SubSeq(s, 1, Len(s) - 1)) ELSE s

Strip(s) == RStrip(LStrip(s))

UpperChar(c) ==
    CASE c = "a" -> "A" [] c = "f" -> "F" [] c = "i" -> "I" [] c = "k" -> "K"
      [] c = "n" -> "N" [] c = "o" -> "O" [] c = "x" -> "X" [] c = "y" -> "Y"
      [] OTHER -> c

Upper(s) == [i \in 1..Len(s) |-> UpperChar(s[i])]

(***************************************************************************)
(* get_chatgpt_comment, lines 371-423.  llm is what the environment gives  *)
(* one call: whether a client or an API key exists (lines 386-392),        *)
(* whether the request raises, and the response's output_text.             *)
(***************************************************************************)
Marker == <<"!", " ", ":", ")">>

AllowedChar(c) == IsHangul(c) \/ IsLatin(c) \/ IsDigit(c) \/ IsSpace(c)

MutSanitize(raw) ==
    LET kept == SelectSeq(raw, AllowedChar)
    IN  IF kept # <<>> THEN kept \o Marker ELSE kept

Sanitize(raw) ==
    LET stripped == Strip(SelectSeq(raw, AllowedChar))
    IN  IF stripped # <<>> THEN stripped \o Marker ELSE stripped

MutGetComment(llm) ==
    IF ~llm.has_client \/ llm.raises THEN Marker ELSE Sanitize(llm.output_text)

get_chatgpt_comment(llm) ==
    IF ~llm.has_client THEN <<>>
    ELSE IF llm.raises THEN <<>>
    ELSE Sanitize(llm.output_text)

\* no language-model call was made for the current post
NotGenerated == [called |-> FALSE, has_client |-> FALSE, raises |-> FALSE, output_text |-> <<>>]

CalledWith(llm) ==
    [called |-> TRUE, has_client |-> llm.has_client, raises |-> llm.raises,
     output_text |-> llm.output_text]

RawResponses == { <<>>, <<"!">>, <<"ga", "!">>, <<" ", "a", "~", "7", " ">> }

LlmOutcomes ==
    {[has_client |-> FALSE, raises |-> FALSE, output_text |-> <<>>],
     [has_client |-> TRUE, raises |-> TRUE, output_text |-> <<>>]}
    \cup {[has_client |-> TRUE, raises |-> FALSE, output_text |-> t] : t \in RawResponses}

(***************************************************************************)
(* visit_post, lines 520-643.  A page gives: whether navigation raises,    *)
(* whether the embedded frame exists, the result of reading the combined   *)
(* body locator inside the frame, the results of reading each flat body    *)
(* selector in list order, and the result of reading the whole document.   *)
(* A read is [ok |-> FALSE] when it raises, else [ok |-> TRUE, text |-> t].*)
(***************************************************************************)
Elements(seq) == {seq[i] : i \in 1..Len(seq)}

Raised == [ok |-> FALSE, text |-> <<>>]

Read(t) == [ok |-> TRUE, text |-> t]

IsBlank(t) == Strip(t) = <<>>

RECURSIVE FlatContent(_, _)
FlatContent(reads, content) ==
    IF reads = <<>> THEN content
    ELSE IF ~Head(reads).ok THEN FlatContent(Tail(reads), content)
    ELSE IF ~IsBlank(Head(reads).text) THEN Head(reads).text
    ELSE FlatContent(Tail(reads), Head(reads).text)

IframeContent(read) == IF read.ok THEN read.text ELSE <<>>

visit_post(page) ==
    IF page.goto_raises THEN <<>>
    ELSE LET found == IF page.iframe_exists
                      THEN IframeContent(page.frame_read)
                      ELSE FlatContent(page.flat_reads, <<>>)
             content == IF IsBlank(found)
                        THEN (IF page.body_read.ok THEN page.body_read.text ELSE <<>>)
                        ELSE found
         IN  Strip(content)

PageTexts == { <<" ">>, <<"a", " ">> }

PageReads == {Raised} \cup {Read(t) : t \in PageTexts}

NoReads == <<Raised, Raised, Raised, Raised, Raised>>

Pages ==
    {[goto_raises |-> TRUE, iframe_exists |-> FALSE, frame_read |-> Raised,
      flat_reads |-> NoReads, body_read |-> Raised]}
    \cup {[goto_raises |-> FALSE, iframe_exists |-> TRUE, frame_read |-> f,
           flat_reads |-> NoReads, body_read |-> b] :
              f \in PageReads, b \in {Raised, Read(<<"a", " ">>)}}
    \cup {[goto_raises |-> FALSE, iframe_exists |-> FALSE, frame_read |-> Raised,
           flat_reads |-> <<r1, r2, Raised, Raised, Raised>>, body_read |-> b] :
              r1 \in {Raised, Read(<<" ">>)}, r2 \in PageReads,
              b \in {Raised, Read(<<"a", " ">>)}}

(***************************************************************************)
(* get_user_confirmation, lines 230-264.                                   *)
(***************************************************************************)
NormalizeResponse(line) == Upper(Strip(line))

MutGateDecision(response) ==
    IF response = <<"N">> THEN "reject"
    ELSE IF response = <<"F", "I", "X">> THEN "fix"
    ELSE "approve"

GateDecision(response) ==
    IF response = <<"Y">> THEN "approve"
    ELSE IF response = <<"N">> THEN "reject"
    ELSE IF response = <<"F", "I", "X">> THEN "fix"
    ELSE "reprompt"

ConfirmLines == { <<"Y">>, <<" ", "y">>, <<"n", " ">>, <<"f", "i", "x">>,
                  <<>>, <<"o", "k">> }

MutReplacement(line) == Strip(line)

\* line 261: the replacement is input()'s line as typed
Replacement(line) == line

ReplacementLines == { <<>>, <<"o", "k">>, <<" ", "~", "ga">> }

(***************************************************************************)
(* The submission engine, lines 292-517.  A form outcome o gives what each *)
(* browser step of one post_comment call does: nav_ok (lines 443-450),     *)
(* field_found (485), input_ok (304-327), button_found (494), scroll_ok    *)
(* (344-345), active_signal (349), force_ok (357), js_ok (362), settle_ok  *)
(* (364) and final, the re-read of the field at line 504: "empty", "text"  *)
(* or "raise".                                                             *)
(***************************************************************************)
process_comment_input(o) == o.input_ok

click_submit_button(o) ==
    IF ~o.scroll_ok THEN [clicked |-> FALSE, js_used |-> FALSE, result |-> FALSE]
    ELSE IF o.force_ok
         THEN [clicked |-> TRUE, js_used |-> FALSE, result |-> o.settle_ok]
    ELSE IF o.js_ok
         THEN [clicked |-> TRUE, js_used |-> TRUE, result |-> o.settle_ok]
    ELSE [clicked |-> FALSE, js_used |-> TRUE, result |-> FALSE]

NotPosted == [called |-> FALSE, wrote |-> FALSE, clicked |-> FALSE,
              final |-> "none", returned |-> FALSE]

post_comment(o) ==
    LET failed == [NotPosted EXCEPT !.called = TRUE]
    IN  IF ~o.nav_ok THEN failed
        ELSE IF ~o.field_found THEN failed
        ELSE IF ~process_comment_input(o) THEN failed
        ELSE IF ~o.button_found THEN [failed EXCEPT !.wrote = TRUE]
        ELSE LET click == click_submit_button(o)
             IN  IF ~click.result
                 THEN [failed EXCEPT !.wrote = TRUE, !.clicked = click.clicked]
                 ELSE [called |-> TRUE, wrote |-> TRUE, clicked |-> TRUE,
                       final |-> o.final, returned |-> TRUE]

AllFormOutcomes ==
    [nav_ok : BOOLEAN, field_found : BOOLEAN, input_ok : BOOLEAN,
     button_found : BOOLEAN, scroll_ok : BOOLEAN, active_signal : BOOLEAN,
     force_ok : BOOLEAN, js_ok : BOOLEAN, settle_ok : BOOLEAN,
     final : {"empty", "text", "raise"}]

\* A step that is not reached has no outcome: it is fixed at TRUE / "empty".
StepsReached(o) ==
    LET r_field  == o.nav_ok
        r_input  == r_field /\ o.field_found
        r_button == r_input /\ o.input_ok
        r_scroll == r_button /\ o.button_found
        r_wait   == r_scroll /\ o.scroll_ok
        r_js     == r_wait /\ ~o.force_ok
        r_settle == r_wait /\ (o.force_ok \/ o.js_ok)
        r_final  == r_settle /\ o.settle_ok
    IN  /\ (~r_field => o.field_found)
        /\ (~r_input => o.input_ok)
        /\ (~r_button => o.button_found)
        /\ (~r_scroll => o.scroll_ok)
        /\ (~r_wait => o.active_signal /\ o.force_ok)
        /\ (~r_js => o.js_ok)
        /\ (~r_settle => o.settle_ok)
        /\ (~r_final => o.final = "empty")

FormOutcomes == {o \in AllFormOutcomes : StepsReached(o)}

(***************************************************************************)
(* process_board_by_article_numbers, lines 28-227: its pure parts.         *)
(***************************************************************************)
\* lines 155-161: duplicates removed, first-seen order kept
RECURSIVE DedupeFrom(_, _, _)
DedupeFrom(numbers, seen, article_list) ==
    IF numbers = <<>> THEN article_list
    ELSE IF Head(numbers) \notin seen
         THEN DedupeFrom(Tail(numbers), seen \cup {Head(numbers)},
                         Append(article_list, Head(numbers)))
    ELSE DedupeFrom(Tail(numbers), seen, article_list)

MutDedupe(numbers) == numbers

MutDedupeSeenLate(numbers) ==
    IF numbers = <<>> THEN <<>>
    ELSE <<Head(numbers)>> \o DedupeFrom(Tail(numbers), {}, <<>>)

Dedupe(numbers) == DedupeFrom(numbers, {}, <<>>)

MutScanFinished(p) == p > 1

MutScanFinishedLate(p) == p > MAX_PAGES_TO_SCAN + 1

\* line 74: the pre-scan loop has run for every page index
ScanFinished(p) == p > MAX_PAGES_TO_SCAN

MutLoopBreaks(count, att) == count > max_comment_count \/ att >= max_attempts_per_board

MutLoopBreaksAfterFirst(count, att) == count >= max_comment_count \/ att >= 1

MutLoopBreaksNoAttempts(count, att) == count >= max_comment_count

\* line 172
LoopBreaks(count, att) == count >= max_comment_count \/ att >= max_attempts_per_board

MutContentEmpty(content) == FALSE

\* line 182
ContentEmpty(content) == content = <<>> \/ Strip(content) = <<>>

MutCountAfterPost(count, success) == count + 1

\* lines 210-214
CountAfterPost(count, success) == IF success THEN count + 1 ELSE count

\* lines 218-223
ExitFlag(count) == count >= max_comment_count

MutExceptFlag(count) == TRUE

\* lines 225-227
ExceptFlag(count) == FALSE

MutAutoApproves(flag) == FALSE

\* line 247
AutoApproves(flag) == flag

\* lines 724-734
AutoModeChoice(line) == NormalizeResponse(line) = <<"Y">>

\* the article numbers a listing page can show, and the rows of one page
ArticleNumbers == {1, 2, 3}

RowSequences ==
    UNION {[1..n -> ArticleNumbers] : n \in 0..MaxCollected}

(***************************************************************************)
(* State.  main: pc, AUTO_MODE, board_idx, comment_count,                  *)
(* should_exit.  process_board_by_article_numbers: p_comment_count (its    *)
(* comment_count parameter), page_idx, collected_numbers, article_list,    *)
(* idx, attempts, article_number, content, comment, user_approved,         *)
(* ret_exit (the flag it returns), raised (it returned from its except     *)
(* clause).  get_user_confirmation: response.                              *)
(* History: stdin_line (the replacement line the operator typed), generated *)
(* (what the generator returned for this post), visited (numbers handed    *)
(* to visit_post in this pass), steps (steps run for the current post),    *)
(* called (steps run in this pass), all_empty (every post visited in this  *)
(* pass had empty content), reprompts (invalid answers at this prompt),    *)
(* last_post (what the last post_comment call did), successes (the number  *)
(* of post_comment calls of this run that returned true), last_llm (how    *)
(* the language-model call for the current post went).                     *)
(* One function called on its own: call_pc (the position inside it, "idle" *)
(* while main runs), call_in (its arguments and what the page answers),    *)
(* call_out (what it has done and returned so far).                        *)
(***************************************************************************)
VARIABLES pc, AUTO_MODE, board_idx, comment_count, should_exit,
          p_comment_count, page_idx, collected_numbers, article_list, idx,
          attempts, article_number, content, comment, user_approved, ret_exit,
          raised, response, stdin_line, generated, visited, steps, called,
          all_empty, reprompts, last_post, successes, last_llm,
          call_pc, call_in, call_out

mainVars == <<AUTO_MODE, board_idx, comment_count, should_exit, successes>>

scanVars == <<page_idx, collected_numbers, article_list>>

loopVars == <<idx, attempts, visited, all_empty>>

postVars == <<article_number, content, comment, user_approved, generated>>

gateVars == <<response, stdin_line, reprompts>>

callVars == <<call_pc, call_in, call_out>>

runVars == <<pc, AUTO_MODE, board_idx, comment_count, should_exit,
             p_comment_count, page_idx, collected_numbers, article_list, idx,
             attempts, article_number, content, comment, user_approved, ret_exit,
             raised, response, stdin_line, generated, visited, steps, called,
             all_empty, reprompts, last_post, successes, last_llm>>

vars == <<runVars, callVars>>

\* main has not started
NotStarted ==
    /\ pc = "select_auto"
    /\ AUTO_MODE = FALSE
    /\ board_idx = 0
    /\ comment_count = 0
    /\ should_exit = FALSE
    /\ p_comment_count = 0
    /\ page_idx = 0
    /\ collected_numbers = <<>>
    /\ article_list = <<>>
    /\ idx = 0
    /\ attempts = 0
    /\ article_number = 0
    /\ content = <<>>
    /\ comment = <<>>
    /\ user_approved = FALSE
    /\ ret_exit = FALSE
    /\ raised = FALSE
    /\ response = <<>>
    /\ stdin_line = <<>>
    /\ generated = <<>>
    /\ visited = <<>>
    /\ steps = <<>>
    /\ called = {}
    /\ all_empty = TRUE
    /\ reprompts = 0
    /\ last_post = NotPosted
    /\ successes = 0
    /\ last_llm = NotGenerated

\* no function is called on its own
NoCall ==
    /\ call_pc = "idle"
    /\ call_in = <<>>
    /\ call_out = <<>>

Init == NotStarted /\ NoCall

\* the locals of one loop iteration and of get_user_confirmation are dropped
DropPostLocals ==
    /\ article_number' = 0
    /\ content' = <<>>
    /\ comment' = <<>>
    /\ user_approved' = FALSE
    /\ generated' = <<>>
    /\ response' = <<>>
    /\ stdin_line' = <<>>
    /\ reprompts' = 0

\* the function returns (count, flag); exc: from its except clause, lines 225-227
Return(flag, exc) ==
    /\ pc' = "board_return"
    /\ ret_exit' = flag
    /\ raised' = exc
    /\ DropPostLocals

\* lines 225-227: the except clause of process_board_by_article_numbers
BoardExcept(count) == Return(ExceptFlag(count), TRUE)

Step(name) ==
    /\ steps' = Append(steps, name)
    /\ called' = called \cup {name}

\* lines 721-734: the operator chooses auto-mode; main's counters are set (750-753)
SelectAutoMode ==
    /\ pc = "select_auto"
    /\ \/ \E line \in ConfirmLines : AUTO_MODE' = AutoModeChoice(line)
       \/ AUTO_MODE' = FALSE           \* input() raises, lines 731-734
    /\ comment_count' = 0
    /\ should_exit' = FALSE
    /\ pc' = "main_loop"
    /\ UNCHANGED <<board_idx, p_comment_count, ret_exit, raised, successes>>
    /\ UNCHANGED <<scanVars, loopVars, postVars, gateVars, steps, called, last_post>>
    /\ UNCHANGED <<last_llm, callVars>>

\* lines 756-766 and 45-61: main takes the next board and calls the function
StartBoard ==
    /\ pc = "main_loop"
    /\ ~should_exit
    /\ board_idx < NumBoards
    /\ board_idx' = board_idx + 1
    /\ p_comment_count' = comment_count
    /\ page_idx' = 0
    /\ collected_numbers' = <<>>
    /\ article_list' = <<>>
    /\ idx' = 0
    /\ attempts' = 0
    /\ visited' = <<>>
    /\ all_empty' = TRUE
    /\ steps' = <<>>
    /\ called' = {}
    /\ last_post' = NotPosted
    /\ last_llm' = NotGenerated
    /\ DropPostLocals
    /\ ret_exit' = FALSE
    /\ raised' = FALSE
    /\ pc' = "goto_board"
    /\ UNCHANGED <<AUTO_MODE, comment_count, should_exit, successes>>
    /\ UNCHANGED callVars

\* lines 67-71: the board's listing is opened
GotoBoard ==
    /\ pc = "goto_board"
    /\ \/ /\ page_idx' = 1
          /\ pc' = "scan"
          /\ UNCHANGED <<ret_exit, raised, postVars, gateVars>>
       \/ /\ BoardExcept(p_comment_count)  \* line 67 raises
          /\ UNCHANGED page_idx
    /\ UNCHANGED <<mainVars, p_comment_count, collected_numbers, article_list,
                   loopVars, steps, called, last_post>>
    /\ UNCHANGED <<last_llm, callVars>>

\* lines 74-153: one listing page of the pre-scan
ScanPage ==
    /\ pc = "scan"
    /\ ~ScanFinished(page_idx)
    /\ \/ /\ page_idx > 1              \* lines 124-126: the page was not reached
          /\ page_idx' = page_idx + 1
          /\ UNCHANGED <<pc, collected_numbers, ret_exit, raised, postVars, gateVars>>
       \/ /\ page_idx' = page_idx + 1  \* lines 137-139: no rows
          /\ UNCHANGED <<pc, collected_numbers, ret_exit, raised, postVars, gateVars>>
       \/ \E rows \in RowSequences :   \* lines 142-151
             /\ Len(collected_numbers) + Len(rows) <= MaxCollected
             /\ collected_numbers' = collected_numbers \o rows
             /\ page_idx' = page_idx + 1
             /\ UNCHANGED <<pc, ret_exit, raised, postVars, gateVars>>
       \/ /\ BoardExcept(p_comment_count)  \* lines 82, 129-135 raise
          /\ UNCHANGED <<page_idx, collected_numbers>>
    /\ UNCHANGED <<mainVars, p_comment_count, article_list, loopVars, steps,
                   called, last_post>>
    /\ UNCHANGED <<last_llm, callVars>>

\* lines 155-170: the collected numbers are deduplicated
CollectDone ==
    /\ pc = "scan"
    /\ ScanFinished(page_idx)
    /\ article_list' = Dedupe(collected_numbers)
    /\ IF article_list' = <<>>
       THEN /\ Return(FALSE, FALSE)
            /\ UNCHANGED <<idx, attempts>>
       ELSE /\ pc' = "loop_head"
            /\ idx' = 1
            /\ attempts' = 0
            /\ UNCHANGED <<ret_exit, raised, postVars, gateVars>>
    /\ UNCHANGED <<mainVars, p_comment_count, page_idx, collected_numbers,
                   visited, all_empty, steps, called, last_post>>
    /\ UNCHANGED <<last_llm, callVars>>

\* lines 171-173 and 218-223: the loop ends and the function returns
ExitLoop ==
    /\ pc = "loop_head"
    /\ idx > Len(article_list) \/ LoopBreaks(p_comment_count, attempts)
    /\ Return(ExitFlag(p_comment_count), FALSE)
    /\ last_llm' = NotGenerated
    /\ UNCHANGED <<mainVars, p_comment_count, scanVars, loopVars, steps, called, last_post>>
    /\ UNCHANGED callVars

\* lines 175-184: the next collected post is visited
\* line 180: what visit_post can return
VisitResults == {visit_post(page) : page \in Pages}

\* line 209: what post_comment can return
PostResults == {post_comment(o) : o \in FormOutcomes}

VisitPost ==
    /\ pc = "loop_head"
    /\ idx <= Len(article_list)
    /\ ~LoopBreaks(p_comment_count, attempts)
    /\ attempts' = attempts + 1
    /\ visited' = Append(visited, article_list[idx])
    /\ steps' = <<"visit">>
    /\ called' = called \cup {"visit"}
    /\ last_post' = NotPosted
    /\ last_llm' = NotGenerated
    /\ \E post_data \in VisitResults :
          /\ all_empty' = (all_empty /\ ContentEmpty(post_data))
          /\ \/ /\ BoardExcept(p_comment_count)  \* line 180 raises
                /\ UNCHANGED idx
             \/ /\ ContentEmpty(post_data)
                /\ idx' = idx + 1
                /\ DropPostLocals
                /\ UNCHANGED <<pc, ret_exit, raised>>
             \/ /\ ~ContentEmpty(post_data)
                /\ article_number' = article_list[idx]
                /\ content' = post_data
                /\ pc' = "generate"
                /\ UNCHANGED <<idx, ret_exit, raised, comment, user_approved,
                               generated, gateVars>>
    /\ UNCHANGED <<mainVars, p_comment_count, scanVars>>
    /\ UNCHANGED callVars

\* lines 198-201
GenerateComment ==
    /\ pc = "generate"
    /\ Step("generate")
    /\ \E llm \in LlmOutcomes :
          LET text == get_chatgpt_comment(llm)
          IN  /\ last_llm' = CalledWith(llm)
              /\ IF text = <<>>
                 THEN /\ idx' = idx + 1
                      /\ pc' = "loop_head"
                      /\ DropPostLocals
                 ELSE /\ comment' = text
                      /\ generated' = text
                      /\ pc' = "confirm"
                      /\ UNCHANGED <<idx, article_number, content, user_approved, gateVars>>
    /\ UNCHANGED <<mainVars, p_comment_count, scanVars, attempts, visited,
                   all_empty, last_post, ret_exit, raised>>
    /\ UNCHANGED callVars

\* get_user_confirmation is entered once per post, line 203
EnterGate ==
    IF "confirm" \in called /\ steps[Len(steps)] = "confirm"
    THEN UNCHANGED <<steps, called>>
    ELSE Step("confirm")

\* lines 203 and 245-249: auto-mode approves without asking
AutoApprove ==
    /\ pc = "confirm"
    /\ AutoApproves(AUTO_MODE)
    /\ EnterGate
    /\ user_approved' = TRUE
    /\ pc' = "post"
    /\ UNCHANGED <<mainVars, p_comment_count, scanVars, loopVars, article_number,
                   content, comment, generated, gateVars, last_post,
                   ret_exit, raised>>
    /\ UNCHANGED <<last_llm, callVars>>

\* lines 203-206 and 251-264: one prompt of the approval loop
PromptUser ==
    /\ pc = "confirm"
    /\ ~AutoApproves(AUTO_MODE)
    /\ EnterGate
    /\ \/ \E line \in ConfirmLines :
            LET answer == NormalizeResponse(line)
            IN  \/ /\ GateDecision(answer) = "approve"
                   /\ response' = answer
                   /\ user_approved' = TRUE
                   /\ pc' = "post"
                   /\ reprompts' = 0
                   /\ UNCHANGED <<idx, stdin_line, article_number, content, comment,
                                  generated, ret_exit, raised>>
                \/ /\ GateDecision(answer) = "reject"
                   /\ response' = answer
                   /\ user_approved' = FALSE
                   /\ idx' = idx + 1
                   /\ pc' = "loop_head"
                   /\ reprompts' = 0
                   /\ UNCHANGED <<stdin_line, article_number, content, comment,
                                  generated, ret_exit, raised>>
                \/ /\ GateDecision(answer) = "fix"
                   /\ response' = answer
                   /\ pc' = "fix_input"
                   /\ UNCHANGED <<idx, reprompts, stdin_line, article_number, content, comment,
                                  generated, user_approved, ret_exit, raised>>
                \/ /\ GateDecision(answer) = "reprompt"
                   /\ reprompts < MaxReprompts
                   /\ response' = answer
                   /\ reprompts' = reprompts + 1
                   /\ UNCHANGED <<pc, idx, stdin_line, article_number, content, comment,
                                  generated, user_approved, ret_exit, raised>>
       \/ /\ BoardExcept(p_comment_count)  \* input() raises (end of input)
          /\ UNCHANGED idx
    /\ UNCHANGED <<mainVars, p_comment_count, scanVars, attempts, visited,
                   all_empty, last_post>>
    /\ UNCHANGED <<last_llm, callVars>>

\* lines 260-262: the replacement text is read and approved as it is
ReadReplacement ==
    /\ pc = "fix_input"
    /\ \/ \E line \in ReplacementLines :
            /\ stdin_line' = line
            /\ comment' = Replacement(line)
            /\ user_approved' = TRUE
            /\ pc' = "post"
            /\ UNCHANGED <<ret_exit, raised, article_number, content, generated,
                           response, reprompts>>
       \/ BoardExcept(p_comment_count)  \* input() raises (end of input)
    /\ UNCHANGED <<mainVars, p_comment_count, scanVars, loopVars, steps, called, last_post>>
    /\ UNCHANGED <<last_llm, callVars>>

\* lines 208-216: the submission, the counter, the pause after it
PostComment ==
    /\ pc = "post"
    /\ Step("post")
    /\ \E result \in PostResults :
          /\ last_post' = result
          /\ p_comment_count' = CountAfterPost(p_comment_count, last_post'.returned)
          /\ successes' = IF last_post'.returned THEN successes + 1 ELSE successes
    /\ \/ /\ idx' = idx + 1
          /\ pc' = "loop_head"
          /\ DropPostLocals
          /\ UNCHANGED <<ret_exit, raised>>
       \/ /\ BoardExcept(p_comment_count')  \* line 216 raises
          /\ UNCHANGED idx
    /\ UNCHANGED <<AUTO_MODE, board_idx, comment_count, should_exit, scanVars,
                   attempts, visited, all_empty>>
    /\ UNCHANGED <<last_llm, callVars>>

\* lines 766-777: main takes the returned pair
BoardReturn ==
    /\ pc = "board_return"
    /\ comment_count' = p_comment_count
    /\ should_exit' = ret_exit
    /\ pc' = IF ret_exit THEN "done" ELSE "main_loop"
    /\ UNCHANGED <<AUTO_MODE, board_idx, successes, p_comment_count, scanVars,
                   loopVars, postVars, gateVars, steps, called,
                   last_post, ret_exit, raised>>
    /\ UNCHANGED <<last_llm, callVars>>

\* lines 756-758 and 779-788: no board is left
FinishRun ==
    /\ pc = "main_loop"
    /\ should_exit \/ board_idx = NumBoards
    /\ pc' = "done"
    /\ UNCHANGED <<mainVars, p_comment_count, scanVars, loopVars, postVars,
                   gateVars, steps, called, last_post, ret_exit, raised>>
    /\ UNCHANGED <<last_llm, callVars>>

Next ==
    \/ SelectAutoMode
    \/ StartBoard
    \/ GotoBoard
    \/ ScanPage
    \/ CollectDone
    \/ ExitLoop
    \/ VisitPost
    \/ GenerateComment
    \/ AutoApprove
    \/ PromptUser
    \/ ReadReplacement
    \/ PostComment
    \/ BoardReturn
    \/ FinishRun

Spec == Init /\ [][Next]_vars

(***************************************************************************)
(* find_element_by_selectors called on its own.  The locator context is a  *)
(* document: its elements in document order, each with the selectors it    *)
(* matches, and the selectors whose query raises in this context.          *)
(***************************************************************************)
MaxDom == 2

\* the first three entries of comment_selectors, lines 453-455
SelectorPool == {"textarea[name='memo']", "textarea.textarea", "textarea#memo"}

Contexts ==
    [dom : UNION {[1..n -> SUBSET SelectorPool] : n \in 0..MaxDom},
     raises : SUBSET SelectorPool]

\* selector lists without repetition
SelectorLists ==
    {s \in UNION {[1..n -> SelectorPool] : n \in 0..Cardinality(SelectorPool)} :
        \A i, j \in 1..Len(s) : s[i] = s[j] => i = j}

\* the elements locator(selector) resolves to, in document order
Located(ctx, selector) == {i \in 1..Len(ctx.dom) : selector \in ctx.dom[i]}

\* locator(selector).first
FirstOf(ctx, selector) ==
    CHOOSE i \in Located(ctx, selector) : \A j \in Located(ctx, selector) : i <= j

MutMatches(ctx, selector) == Located(ctx, selector) # {}

\* lines 280-286: count() > 0 inside the try; a raising query is skipped
Matches(ctx, selector) ==
    /\ selector \notin ctx.raises
    /\ Cardinality(Located(ctx, selector)) > 0

\* line 289
NoneNone == [element |-> 0, selector |-> "None"]

RECURSIVE FindFrom(_, _, _)
\* lines 279-289, from the k-th selector on
FindFrom(ctx, selectors, k) ==
    IF k > Len(selectors)
    THEN NoneNone
    ELSE IF Matches(ctx, selectors[k])
         THEN [element |-> FirstOf(ctx, selectors[k]), selector |-> selectors[k]]
         ELSE FindFrom(ctx, selectors, k + 1)

find_element_by_selectors(locator_context, selectors) ==
    FindFrom(locator_context, selectors, 1)

FindInit ==
    /\ NotStarted
    /\ call_pc = "find"
    /\ call_in \in [locator_context : Contexts, selectors : SelectorLists]
    /\ call_out = <<>>

FindCall ==
    /\ call_pc = "find"
    /\ call_out' = find_element_by_selectors(call_in.locator_context, call_in.selectors)
    /\ call_pc' = "find_returned"
    /\ UNCHANGED <<call_in, runVars>>

FindNext == FindCall

FindSpec == FindInit /\ [][FindNext]_vars

(***************************************************************************)
(* visit_post called on its own.  The post is a document: its elements in  *)
(* document order, each with the selectors it matches and its inner text.  *)
(***************************************************************************)
\* line 587: the selector group queried inside the frame
IframePatterns == <<".se-main-container", ".ArticleContentBox", "div.article_viewer", "#content">>

\* lines 594-600
FlatSelectors ==
    <<".se-main-container", ".article_viewer", "[class*='ArticleContent']", "article", ".post_ct">>

ElementKinds ==
    { {".se-main-container"}, {".article_viewer", "div.article_viewer"}, {"article"}, {"#content"} }

ElementTexts == { <<" ">>, <<"a", " ">>, <<"b">> }

Elems == [matches : ElementKinds, text : ElementTexts]

Documents ==
    [goto_raises : BOOLEAN,
     iframe_exists : BOOLEAN,
     dom : UNION {[1..n -> Elems] : n \in 0..MaxDom},
     body_read : {Raised, Read(<<" ">>), Read(<<" ", "d">>)}]

\* the elements one of the selectors resolves to, in document order
LocatedAny(dom, selectors) ==
    {i \in 1..Len(dom) : dom[i].matches \cap selectors # {}}

\* locator(...).first.inner_text(timeout): the first such element's text; the
\* wait times out and raises when there is none
FirstText(dom, selectors) ==
    IF LocatedAny(dom, selectors) = {}
    THEN Raised
    ELSE Read(dom[CHOOSE i \in LocatedAny(dom, selectors) :
                     \A j \in LocatedAny(dom, selectors) : i <= j].text)

\* what the page answers to the reads of lines 587-588, 604-605 and 617
PageOf(d) ==
    [goto_raises |-> d.goto_raises,
     iframe_exists |-> d.iframe_exists,
     frame_read |-> FirstText(d.dom, Elements(IframePatterns)),
     flat_reads |-> [k \in 1..Len(FlatSelectors) |-> FirstText(d.dom, {FlatSelectors[k]})],
     body_read |-> d.body_read]

VisitInit ==
    /\ NotStarted
    /\ call_pc = "visit"
    /\ call_in \in Documents
    /\ call_out = <<>>

VisitCall ==
    /\ call_pc = "visit"
    /\ call_out' = visit_post(PageOf(call_in))
    /\ call_pc' = "visit_returned"
    /\ UNCHANGED <<call_in, runVars>>

VisitNext == VisitCall

VisitSpec == VisitInit /\ [][VisitNext]_vars

(***************************************************************************)
(* The sanitization of get_chatgpt_comment (lines 405-416) applied to a    *)
(* raw response and then to its own output.                                *)
(***************************************************************************)
MaxRaw == 3

RawAlphabet == {"ga", "a", "7", " ", "\n", "!", ":", ")", "~"}

RawTexts == UNION {[1..n -> RawAlphabet] : n \in 0..MaxRaw}

SanitizeInit ==
    /\ NotStarted
    /\ call_pc = "sanitize"
    /\ call_in \in RawTexts
    /\ call_out = <<>>

\* the raw response is sanitized
SanitizeCall ==
    /\ call_pc = "sanitize"
    /\ call_out' = <<Sanitize(call_in)>>
    /\ call_pc' = "sanitized"
    /\ UNCHANGED <<call_in, runVars>>

\* the sanitized comment is sanitized again
SanitizeAgain ==
    /\ call_pc = "sanitized"
    /\ call_out' = Append(call_out, Sanitize(call_out[1]))
    /\ call_pc' = "resanitized"
    /\ UNCHANGED <<call_in, runVars>>

SanitizeNext == SanitizeCall \/ SanitizeAgain

SanitizeSpec == SanitizeInit /\ [][SanitizeNext]_vars

(***************************************************************************)
(* post_comment called on its own, one step of lines 441-513 at a time     *)
(* (process_comment_input and click_submit_button included).  call_in      *)
(* holds the text to submit and what the page answers at each step (a form *)
(* outcome as above, with process_comment_input's outcome split into the   *)
(* writes and the read-back); call_out holds the steps taken so far (log), *)
(* the text written to the comment field, the value read back, and the     *)
(* result once it has returned.                                            *)
(***************************************************************************)
SubmitTexts == { <<"a">> \o Marker, <<"o", "k">> }

MutNotFound(found) == FALSE

\* lines 486 and 495: "if not element: return False"
NotFound(found) == ~found

MutWaitAborts(signal) == ~signal

\* lines 347-352: the wait's exception is caught and only printed
WaitAborts(signal) == FALSE

MutNeedsFallback(force_ok) == TRUE

\* lines 356-362: the except branch of the forced click
NeedsFallback(force_ok) == ~force_ok

\* line 321: what comment_input.input_value() gives after the write
ReadBacks == {Raised} \cup {Read(t) : t \in SubmitTexts \cup {<<>>}}

MutReadBackRejects(written, read) == read # written

\* lines 321-323: the value read back is printed and True is returned
ReadBackRejects(written, read) == FALSE

\* process_comment_input succeeds when its writes (306-318) and its read-back
\* (321) both return; a step that is not reached has no outcome
SubmitCalls ==
    {c \in [comment_text : SubmitTexts, form : FormOutcomes,
            write_ok : BOOLEAN, read_back : ReadBacks] :
        /\ process_comment_input(c.form) = (c.write_ok /\ c.read_back.ok)
        /\ ~(c.form.nav_ok /\ c.form.field_found) => c.write_ok
        /\ ~(c.form.nav_ok /\ c.form.field_found /\ c.write_ok) =>
               c.read_back = Read(c.comment_text)}

SubmitInit ==
    /\ NotStarted
    /\ call_pc = "post_comment"
    /\ call_in \in SubmitCalls
    /\ call_out = [log |-> <<>>, field |-> <<>>, read |-> <<>>, done |-> FALSE,
                   result |-> FALSE]

Did(event) == call_out' = [call_out EXCEPT !.log = Append(@, event)]

\* post_comment returns value after a step that failed or as its last step
Returns(event, value) ==
    /\ call_out' = [call_out EXCEPT !.log = Append(@, event), !.done = TRUE,
                                    !.result = value]
    /\ call_pc' = "returned"

\* lines 443-447: the post is opened
SubmitNavigate ==
    /\ call_pc = "post_comment"
    /\ IF call_in.form.nav_ok
       THEN Did("goto") /\ call_pc' = "find_field"
       ELSE Returns("goto:raised", FALSE)
    /\ UNCHANGED <<call_in, runVars>>

\* lines 485-487: the comment field is looked up
SubmitFindField ==
    /\ call_pc = "find_field"
    /\ IF NotFound(call_in.form.field_found)
       THEN Returns("field:none", FALSE)
       ELSE Did("field") /\ call_pc' = "fill"
    /\ UNCHANGED <<call_in, runVars>>

\* lines 490 and 304-318: process_comment_input scrolls, clicks, clears, writes
SubmitFill ==
    /\ call_pc = "fill"
    /\ IF call_in.write_ok
       THEN /\ call_out' = [call_out EXCEPT !.log = Append(@, "fill"),
                                            !.field = call_in.comment_text]
            /\ call_pc' = "read_back"
       ELSE Returns("fill:raised", FALSE)
    /\ UNCHANGED <<call_in, runVars>>

\* lines 320-327 and 490-491: the field is read back; process_comment_input
\* returns True, or False from its except clause when the read raises
SubmitReadBack ==
    /\ call_pc = "read_back"
    /\ IF ~call_in.read_back.ok
       THEN Returns("read_back:raised", FALSE)
       ELSE IF ReadBackRejects(call_out.field, call_in.read_back.text)
            THEN Returns("read_back:rejected", FALSE)
            ELSE /\ call_out' = [call_out EXCEPT !.log = Append(@, "read_back"),
                                                 !.read = call_in.read_back.text]
                 /\ call_pc' = "find_button"
    /\ UNCHANGED <<call_in, runVars>>

\* lines 494-496: the submit control is looked up
SubmitFindButton ==
    /\ call_pc = "find_button"
    /\ IF NotFound(call_in.form.button_found)
       THEN Returns("button:none", FALSE)
       ELSE Did("button") /\ call_pc' = "scroll"
    /\ UNCHANGED <<call_in, runVars>>

\* lines 344-345: click_submit_button scrolls to the control
SubmitScroll ==
    /\ call_pc = "scroll"
    /\ IF call_in.form.scroll_ok
       THEN Did("scroll") /\ call_pc' = "wait_active"
       ELSE Returns("scroll:raised", FALSE)
    /\ UNCHANGED <<call_in, runVars>>

\* lines 347-352: the bounded wait for the active signal
SubmitWaitActive ==
    /\ call_pc = "wait_active"
    /\ LET event == IF call_in.form.active_signal THEN "wait:signal" ELSE "wait:timeout"
       IN  IF WaitAborts(call_in.form.active_signal)
           THEN Returns(event, FALSE)
           ELSE Did(event) /\ call_pc' = "force_click"
    /\ UNCHANGED <<call_in, runVars>>

\* lines 354-362: the forced click, and the script click in its except branch
SubmitForceClick ==
    /\ call_pc = "force_click"
    /\ Did(IF call_in.form.force_ok THEN "force_click" ELSE "force_click:raised")
    /\ call_pc' = IF NeedsFallback(call_in.form.force_ok) THEN "js_click" ELSE "settle"
    /\ UNCHANGED <<call_in, runVars>>

\* line 362; an exception here reaches the outer except, lines 366-368
SubmitJsClick ==
    /\ call_pc = "js_click"
    /\ IF call_in.form.js_ok
       THEN Did("js_click") /\ call_pc' = "settle"
       ELSE Returns("js_click:raised", FALSE)
    /\ UNCHANGED <<call_in, runVars>>

\* lines 364-365: the pause after the click
SubmitSettle ==
    /\ call_pc = "settle"
    /\ IF call_in.form.settle_ok
       THEN Did("settle") /\ call_pc' = "reread"
       ELSE Returns("settle:raised", FALSE)
    /\ UNCHANGED <<call_in, runVars>>

\* lines 503-513: the field is read again and True is returned
SubmitReread ==
    /\ call_pc = "reread"
    /\ Returns("reread:" \o call_in.form.final, TRUE)
    /\ UNCHANGED <<call_in, runVars>>

SubmitNext ==
    \/ SubmitNavigate
    \/ SubmitFindField
    \/ SubmitFill
    \/ SubmitReadBack
    \/ SubmitFindButton
    \/ SubmitScroll
    \/ SubmitWaitActive
    \/ SubmitForceClick
    \/ SubmitJsClick
    \/ SubmitSettle
    \/ SubmitReread

SubmitSpec == SubmitInit /\ [][SubmitNext]_vars

(***************************************************************************)
(* Properties.                                                             *)
(***************************************************************************)
StepOrder == <<"visit", "generate", "confirm", "post">>

\* the function has returned through its except clause
Excepted == pc = "board_return" /\ raised

\* C1: over the whole run the number of post_comment calls that returned true
\* never exceeds max_comment_count, and 0 <= comment_count <= max_comment_count
\* holds for main's counter and for the function's counter in every state.
C1_CountWithinCap ==
    /\ successes <= max_comment_count
    /\ 0 <= comment_count /\ comment_count <= max_comment_count
    /\ 0 <= p_comment_count /\ p_comment_count <= max_comment_count

\* the cap is reached on the second board, with one comment from the first
C1_Witness ==
    /\ board_idx = NumBoards
    /\ comment_count >= 1
    /\ comment_count < max_comment_count
    /\ successes = max_comment_count
    /\ p_comment_count = max_comment_count

\* C2: once a successful submission has made comment_count equal to
\* max_comment_count, no further post is visited, no comment is generated or
\* submitted, no prompt is issued and no board is started or scanned.
C2_RunEndsAtCap ==
    [][p_comment_count = max_comment_count =>
          /\ board_idx' = board_idx
          /\ page_idx' = page_idx
          /\ visited' = visited
          /\ steps' = steps
          /\ called' = called]_vars

\* C3: for one post the steps run in the order visit, generate, confirm, post;
\* the generator is called only for non-blank content, the approval gate is
\* entered only with a non-empty generated comment, and post_comment is called
\* only for an approved comment.
C3_StepsInOrder ==
    [][steps' # steps =>
          \/ steps' = <<>>
          \/ steps' = <<"visit">>
          \/ /\ steps = <<"visit">>
             /\ steps' = <<"visit", "generate">>
             /\ ~IsBlank(content)
          \/ /\ steps = <<"visit", "generate">>
             /\ steps' = <<"visit", "generate", "confirm">>
             /\ generated # <<>>
             /\ comment = generated
          \/ /\ steps = <<"visit", "generate", "confirm">>
             /\ steps' = StepOrder
             /\ user_approved]_vars

\* all four steps ran for one post and the submission succeeded
C3_Witness == steps = StepOrder /\ last_post.returned /\ pc = "loop_head"

\* C4: comment_count changes only by +1 and only when post_comment returned
\* true for the current post; a skip, a failed submission and a board-level
\* exception leave it unchanged; main's counter only takes the returned
\* value, so the counter never decreases.
C4_CountChangesOnlyOnSuccess ==
    [][/\ p_comment_count' # p_comment_count =>
            /\ pc = "post"
            /\ p_comment_count' = p_comment_count + 1
            /\ last_post'.returned
       /\ (pc = "post" /\ ~last_post'.returned) => p_comment_count' = p_comment_count
       /\ (Excepted' /\ pc # "post") => p_comment_count' = p_comment_count
       /\ comment_count' # comment_count =>
            /\ pc = "board_return"
            /\ comment_count' = p_comment_count
            /\ comment_count' > comment_count]_vars

\* a failed submission after a counted one: the counter stays at 1
C4_Witness ==
    /\ pc = "loop_head"
    /\ last_post.called
    /\ ~last_post.returned
    /\ p_comment_count = 1
    /\ comment_count = 0

\* C5: post_comment returns true only when the field, re-read after the
\* click, is empty; with text left in the field or a raising re-read it
\* returns false.
C5_TrueOnlyIfFieldEmpty ==
    last_post.returned => last_post.final = "empty"

\* the pre-scan may still run, or has run for every page
ScanPosition ==
    /\ page_idx <= MAX_PAGES_TO_SCAN + 1
    /\ (pc \in {"goto_board", "scan"} => called = {} /\ visited = <<>> /\ attempts = 0)
    /\ (called # {} => page_idx = MAX_PAGES_TO_SCAN + 1)

\* C6: no post is visited, nothing is generated and nothing is submitted
\* before the pre-scan of the (at most 5) listing pages has finished, and
\* once the first post is processed the collected list is never changed.
C6_DiscoveryBeforeProcessing ==
    /\ []ScanPosition
    /\ [][(called # {} /\ board_idx' = board_idx) =>
              /\ article_list' = article_list
              /\ collected_numbers' = collected_numbers
              /\ page_idx' = page_idx]_vars

\* a second post is being processed from a list of three numbers
C6_Witness ==
    /\ Len(article_list) = 3
    /\ Len(visited) = 2
    /\ pc = "generate"

\* the position of the first occurrence of n in numbers
FirstSeenAt(numbers, n) ==
    CHOOSE i \in 1..Len(numbers) :
        numbers[i] = n /\ \A j \in 1..(i - 1) : numbers[j] # n

\* C7: in one pass the numbers handed to visit_post are pairwise different
\* and are, in order, the numbers of the pre-scan in the order of their first
\* occurrence, whatever duplicates the listing pages held.
C7_VisitedFirstSeenOrder ==
    /\ \A i, j \in 1..Len(visited) : i # j => visited[i] # visited[j]
    /\ \A k \in 1..Len(visited) :
          /\ visited[k] \in Elements(collected_numbers)
          /\ {collected_numbers[j] :
                 j \in 1..(FirstSeenAt(collected_numbers, visited[k]) - 1)}
             = {visited[i] : i \in 1..(k - 1)}

\* two posts visited from a pre-scan that saw the first number twice
C7_Witness ==
    /\ Len(collected_numbers) = 3
    /\ collected_numbers[1] = collected_numbers[2]
    /\ Len(visited) = 2

Yes == <<"Y">>

No == <<"N">>

Fix == <<"F", "I", "X">>

\* C8: with auto-mode off the gate leaves its prompt only on Y (approved, text
\* unchanged), N (rejected) or FIX (one replacement line is read and approved
\* as typed, without a second confirmation); any other answer leaves the
\* proposed text and the gate as they were and prompts again.
C8_GateDecisions ==
    [][/\ (pc = "confirm" /\ ~AUTO_MODE) =>
            \/ Excepted'
            \/ /\ response' = Yes
               /\ pc' = "post"
               /\ user_approved'
               /\ comment' = comment /\ comment' = generated
            \/ /\ response' = No
               /\ pc' = "loop_head"
               /\ ~user_approved'
               /\ idx' = idx + 1
            \/ /\ response' = Fix
               /\ pc' = "fix_input"
               /\ ~user_approved'
               /\ comment' = comment
            \/ /\ response' \notin {Yes, No, Fix}
               /\ pc' = "confirm"
               /\ ~user_approved'
               /\ comment' = comment /\ generated' = generated
               /\ idx' = idx /\ p_comment_count' = p_comment_count
       /\ pc = "fix_input" =>
            \/ Excepted'
            \/ /\ pc' = "post"
               /\ user_approved'
               /\ stdin_line' \in ReplacementLines
               /\ comment' = stdin_line'
               /\ response' = Fix]_vars

\* after an invalid answer the operator typed FIX and a replacement, which
\* is about to be submitted as typed
C8_Witness ==
    /\ pc = "post"
    /\ ~AUTO_MODE
    /\ reprompts = MaxReprompts
    /\ response = Fix
    /\ user_approved
    /\ comment = <<" ", "~", "ga">>
    /\ comment # generated

\* C9: with auto-mode on the gate approves the generated text as it is and
\* no operator input is read: no answer, no replacement line, no re-prompt
\* in any state of the run.
C9_AutoModeNeverPrompts ==
    AUTO_MODE =>
        /\ response = <<>>
        /\ stdin_line = <<>>
        /\ reprompts = 0
        /\ pc # "fix_input"
        /\ (pc = "confirm" => "confirm" \notin Elements(steps))
        /\ (pc = "post" => user_approved /\ comment = generated /\ comment # <<>>)

\* in auto-mode a comment went through the gate and was submitted
C9_Witness ==
    /\ AUTO_MODE
    /\ steps = StepOrder
    /\ last_post.returned
    /\ successes = max_comment_count

\* C10: in one pass at most max_attempts_per_board posts are visited and
\* every visited post takes one attempt; a pass that starts below the comment
\* cap, has at least max_attempts_per_board candidates, finds every visited
\* post empty and ends without an exception has visited exactly
\* max_attempts_per_board posts, generated and submitted nothing, and
\* returns the unchanged comment_count with should_exit false.
C10_AttemptCap ==
    /\ Len(visited) <= max_attempts_per_board
    /\ attempts = Len(visited)
    /\ (/\ pc = "board_return"
        /\ ~raised
        /\ all_empty
        /\ comment_count < max_comment_count
        /\ Len(article_list) >= max_attempts_per_board)
       => /\ Len(visited) = max_attempts_per_board
          /\ called = {"visit"}
          /\ p_comment_count = comment_count
          /\ ret_exit = FALSE

\* more candidates than attempts, all visited posts empty, the pass returned
C10_Witness ==
    /\ pc = "board_return"
    /\ ~raised
    /\ all_empty
    /\ Len(article_list) > max_attempts_per_board
    /\ Len(visited) = max_attempts_per_board
    /\ comment_count < max_comment_count

\* C11: an exception raised in one board's pass (opening the listing, the
\* pre-scan, the processing loop) makes the function return, not raise: the
\* count it returns keeps every comment counted before the exception, main
\* takes that count, does not stop the run, and starts the next configured
\* board with it when one is left.
C11_BoardExceptionEndsOnlyThatBoard ==
    [][/\ Excepted' =>
            /\ p_comment_count' >= comment_count
            /\ p_comment_count' =
                   p_comment_count + (IF pc = "post" /\ last_post'.returned THEN 1 ELSE 0)
       /\ Excepted =>
            /\ comment_count' = p_comment_count
            /\ ~should_exit'
            /\ pc' = "main_loop"
       /\ (pc = "main_loop" /\ raised /\ board_idx < NumBoards) =>
            /\ board_idx' = board_idx + 1
            /\ p_comment_count' = comment_count
            /\ pc' = "goto_board"]_vars

\* the first board's pass counted a comment and then raised; main holds the
\* count and is about to start the second board
C11_Witness ==
    /\ pc = "main_loop"
    /\ raised
    /\ board_idx = 1
    /\ comment_count = 1
    /\ ~should_exit

\* C12: a failure confined to one post does not end the pass.  A visit that
\* yields no content, a generation that yields no text and a submission that
\* returns false each leave the loop at the next collected number (unless the
\* pause after the visit or after the submission raises, which is a failure of
\* the pass); the generation step never raises into the pass; and from the
\* head of the loop with a number left and neither cap reached the only step
\* is the visit of that number.
C12_PostFailureKeepsPass ==
    [][/\ (pc = "loop_head" /\ visited' # visited /\ ~Excepted') =>
            \/ pc' = "generate" /\ content' # <<>>
            \/ pc' = "loop_head" /\ idx' = idx + 1
       /\ pc = "generate" =>
            /\ ~Excepted'
            /\ \/ pc' = "confirm" /\ comment' # <<>>
               \/ pc' = "loop_head" /\ idx' = idx + 1
       /\ (pc = "post" /\ ~Excepted') =>
            /\ last_post'.called
            /\ pc' = "loop_head"
            /\ idx' = idx + 1
       /\ (/\ pc = "loop_head"
           /\ idx <= Len(article_list)
           /\ p_comment_count < max_comment_count
           /\ attempts < max_attempts_per_board) =>
            /\ visited' = Append(visited, article_list[idx])
            /\ attempts' = attempts + 1]_vars

\* a submission returned false and the next collected number is about to be
\* visited
C12_Witness ==
    /\ pc = "loop_head"
    /\ last_post.called
    /\ ~last_post.returned
    /\ idx = 2
    /\ idx <= Len(article_list)
    /\ ~LoopBreaks(p_comment_count, attempts)

\* positions of the selector list whose selector has a match in the context
\* and whose query does not raise
MatchingPositions ==
    {k \in 1..Len(call_in.selectors) :
        /\ call_in.selectors[k] \notin call_in.locator_context.raises
        /\ \E i \in 1..Len(call_in.locator_context.dom) :
              call_in.selectors[k] \in call_in.locator_context.dom[i]}

\* C13: find_element_by_selectors returns the selector that comes first in
\* list order among those with a match (a raising query counts as no match)
\* together with that selector's first element, wherever the elements of
\* later selectors sit in the document, and returns (None, None) exactly
\* when no selector of the list matches.
C13_FirstMatchingSelector ==
    call_pc = "find_returned" =>
        LET dom == call_in.locator_context.dom
        IN  /\ (call_out = NoneNone) <=> (MatchingPositions = {})
            /\ MatchingPositions # {} =>
                 \E k \in MatchingPositions :
                    /\ \A j \in MatchingPositions : k <= j
                    /\ call_out.selector = call_in.selectors[k]
                    /\ call_out.element \in 1..Len(dom)
                    /\ call_out.selector \in dom[call_out.element]
                    /\ \A i \in 1..(call_out.element - 1) : call_out.selector \notin dom[i]

\* the first selector's query raises, the second selector's only element is
\* the second of the document, the third selector matches the first element:
\* the second selector and its element are returned
C13_Witness ==
    /\ call_pc = "find_returned"
    /\ Len(call_in.selectors) = 3
    /\ Len(call_in.locator_context.dom) = 2
    /\ call_in.locator_context.dom[1] = {call_in.selectors[1], call_in.selectors[3]}
    /\ call_in.locator_context.dom[2] = {call_in.selectors[2]}
    /\ call_in.locator_context.raises = {call_in.selectors[1]}
    /\ call_out = [element |-> 2, selector |-> call_in.selectors[2]]

\* the body-container patterns of the context the post is read in
BodyPatterns == IF call_in.iframe_exists THEN IframePatterns ELSE FlatSelectors

\* positions of the pattern list with an element in the document
BodyMatches == {k \in 1..Len(BodyPatterns) : LocatedAny(call_in.dom, {BodyPatterns[k]}) # {}}

\* the inner text of the first pattern, in list order, that matches
FirstPatternText ==
    FirstText(call_in.dom,
              {BodyPatterns[CHOOSE k \in BodyMatches : \A j \in BodyMatches : k <= j]}).text

DocumentText == IF call_in.body_read.ok THEN call_in.body_read.text ELSE <<>>

\* C14: in the nested-frame and in the flat context visit_post reads the
\* inner text of the first body-container pattern, in list order, that
\* matches, takes the whole document's text exactly when no pattern matches
\* or that text is empty or whitespace-only, and returns the trimmed result
\* (empty when nothing succeeded).
C14_BodyFromFirstMatchingPattern ==
    call_pc = "visit_returned" =>
        call_out =
            IF call_in.goto_raises THEN <<>>
            ELSE IF BodyMatches = {} \/ IsBlank(FirstPatternText)
                 THEN Strip(DocumentText)
                 ELSE Strip(FirstPatternText)

\* text ends with the marker and has only allowed characters before it
MarkedAllowed(text) ==
    /\ Len(text) >= Len(Marker)
    /\ SubSeq(text, Len(text) - Len(Marker) + 1, Len(text)) = Marker
    /\ \A i \in 1..(Len(text) - Len(Marker)) : AllowedChar(text[i])

\* C15: a sanitized response is either empty or a body of allowed characters
\* followed by the marker "! :)", and sanitizing it again returns it
\* unchanged.
C15_SanitizeIdempotent ==
    /\ call_pc \in {"sanitized", "resanitized"} =>
          call_out[1] = <<>> \/ MarkedAllowed(call_out[1])
    /\ call_pc = "resanitized" => call_out[2] = call_out[1]

\* a response with a symbol and surrounding blanks was cut down to its
\* letter, marked, and sanitized a second time
C15_Witness ==
    /\ call_pc = "resanitized"
    /\ call_in = <<" ", "a", "~">>
    /\ call_out[1] = <<"a">> \o Marker
    /\ call_out[2] = <<"a">> \o Marker

\* the language-model call recorded in r gave no usable text
GenerationFailed(r) ==
    \/ ~r.has_client
    \/ r.raises
    \/ Sanitize(r.output_text) = <<>>

\* C16: get_chatgpt_comment never raises into the pass and returns the empty
\* string when there is no client and no API key, when the language-model
\* call fails and when the response is empty after sanitization; the
\* controller then skips the post: the loop moves to the next number with no
\* approval gate entered and no submission made for that post.
C16_EmptyGenerationSkipsPost ==
    /\ [](last_llm.called /\ GenerationFailed(last_llm) =>
             /\ steps = <<"visit", "generate">>
             /\ ~last_post.called
             /\ comment = <<>>
             /\ pc \in {"loop_head", "board_return"})
    /\ [][pc = "generate" =>
             /\ ~Excepted'
             /\ last_llm'.called
             /\ IF GenerationFailed(last_llm')
                THEN /\ pc' = "loop_head"
                     /\ idx' = idx + 1
                     /\ generated' = <<>>
                ELSE /\ pc' = "confirm"
                     /\ generated' = Sanitize(last_llm'.output_text)
                     /\ comment' = generated']_vars

\* the language-model call for the first post raised; the loop stands at the
\* second number with nothing gated or submitted
C16_Witness ==
    /\ pc = "loop_head"
    /\ last_llm.called
    /\ last_llm.raises
    /\ steps = <<"visit", "generate">>
    /\ idx = 2
    /\ ~last_post.called

\* C17: the pass starts at the topmost article number of the first listing
\* page and visits topmost, topmost - 1, ... in steps of exactly 1, each
\* number once, and stops only at the comment cap, at the attempt cap or
\* when the number reaches zero.
C17_DescendingFromTopmost ==
    /\ visited # <<>> => visited[1] = collected_numbers[1]
    /\ \A k \in 2..Len(visited) : visited[k] = visited[k - 1] - 1
    /\ (pc = "board_return" /\ ~raised /\ visited # <<>>) =>
          \/ p_comment_count >= max_comment_count
          \/ attempts >= max_attempts_per_board
          \/ visited[Len(visited)] = 1

\* the steps of the call under way
Log == call_out.log

HasEvent(event) == \E i \in 1..Len(Log) : Log[i] = event

\* a click on the submit control was attempted
ClickEvents == {"force_click", "force_click:raised", "js_click", "js_click:raised"}

ScriptEvents == {"js_click", "js_click:raised"}

NoClickAttempt == \A i \in 1..Len(Log) : Log[i] \notin ClickEvents

\* the step-by-step run of post_comment and the operator post_comment used by
\* the pass agree on the result, on the text being written and on the click
SubmitAgrees ==
    call_pc = "returned" =>
        LET whole == post_comment(call_in.form)
        IN  /\ call_out.result = whole.returned
            /\ HasEvent("read_back") = whole.wrote
            /\ (HasEvent("force_click") \/ HasEvent("js_click")) = whole.clicked

\* C18: when no comment-field selector matches, post_comment returns false
\* with nothing written and no click; when the field was found and filled
\* but no submit-control selector matches, it returns false with no click;
\* a click is attempted only after the field was resolved, the text written
\* and the submit control resolved, in that order.
C18_ClickOnlyAfterBothResolved ==
    /\ (call_pc = "returned" /\ call_in.form.nav_ok /\ ~call_in.form.field_found) =>
          /\ ~call_out.result
          /\ call_out.field = <<>>
          /\ ~HasEvent("fill")
          /\ NoClickAttempt
    /\ (/\ call_pc = "returned"
        /\ call_in.form.nav_ok
        /\ call_in.form.field_found
        /\ call_in.form.input_ok
        /\ ~call_in.form.button_found) =>
          /\ ~call_out.result
          /\ call_out.field = call_in.comment_text
          /\ NoClickAttempt
    /\ \A i \in 1..Len(Log) :
          Log[i] \in ClickEvents =>
              \E f, w, b \in 1..(i - 1) :
                  /\ f < w
                  /\ w < b
                  /\ Log[f] = "field"
                  /\ Log[w] = "fill"
                  /\ Log[b] = "button"
                  /\ call_out.field = call_in.comment_text

\* the field was filled, no submit control was found, false was returned
C18_Witness ==
    /\ call_pc = "returned"
    /\ HasEvent("fill")
    /\ HasEvent("button:none")
    /\ call_out.field = call_in.comment_text
    /\ ~call_out.result

\* C19: the bounded wait for the active signal never ends a submission:
\* after the wait, with the signal or timed out, the next step of
\* click_submit_button is the forced click, and the result of a call that
\* got as far as the wait is decided by the click and the pause after it
\* alone, so post_comment can return true after a timed-out wait.
C19_WaitNeverAborts ==
    /\ [](call_out.done /\ (HasEvent("wait:signal") \/ HasEvent("wait:timeout")) =>
             /\ HasEvent("force_click") \/ HasEvent("force_click:raised")
             /\ call_out.result = HasEvent("settle"))
    /\ [][/\ call_pc = "wait_active" =>
               /\ call_pc' = "force_click"
               /\ ~call_out'.done
               /\ call_out'.log[Len(call_out'.log)] =
                     (IF call_in.form.active_signal THEN "wait:signal" ELSE "wait:timeout")
          /\ call_pc = "force_click" =>
               call_out'.log[Len(call_out'.log)] \in {"force_click", "force_click:raised"}]_vars

\* the wait timed out, the forced click went through, true was returned
C19_Witness ==
    /\ call_pc = "returned"
    /\ HasEvent("wait:timeout")
    /\ HasEvent("force_click")
    /\ call_out.result

\* C20: the script click is run exactly when the forced click raised: never
\* after a forced click that went through, once after one that raised; when
\* the script click raises too, click_submit_button returns false and so
\* does post_comment.
C20_FallbackExactlyOnRaise ==
    /\ Cardinality({i \in 1..Len(Log) : Log[i] \in ScriptEvents}) <= 1
    /\ \A i \in 1..Len(Log) :
          Log[i] \in ScriptEvents => i > 1 /\ Log[i - 1] = "force_click:raised"
    /\ HasEvent("force_click") => \A i \in 1..Len(Log) : Log[i] \notin ScriptEvents
    /\ (HasEvent("force_click:raised") /\ call_pc # "js_click") =>
          \E i \in 1..Len(Log) : Log[i] \in ScriptEvents
    /\ HasEvent("js_click:raised") =>
          /\ call_pc = "returned"
          /\ ~call_out.result
          /\ ~HasEvent("settle")

\* the forced click raised, the script click raised too, false was returned
C20_Witness ==
    /\ call_pc = "returned"
    /\ HasEvent("force_click:raised")
    /\ HasEvent("js_click:raised")
    /\ ~call_out.result

\* C21 as stated: whatever the read-back step yields, post_comment goes on
\* from it to the lookup of the submit control.
C21_ReadBackNeverGates ==
    [][call_pc = "read_back" => call_pc' = "find_button" /\ ~call_out'.done]_vars

\* C21, amended: whatever value the read-back returns (the written text, a
\* different text, nothing), post_comment goes on to look up the submit
\* control and, once found and scrolled to, to click it; only a read-back
\* that raises ends the call, with false and no lookup or click.
C21_ReadBackValueNeverGates ==
    /\ [](/\ HasEvent("read_back") /\ call_pc = "returned" =>
               /\ HasEvent("button") \/ HasEvent("button:none")
               /\ (HasEvent("button") /\ HasEvent("scroll")) => ~NoClickAttempt
          /\ HasEvent("read_back:raised") =>
               /\ call_pc = "returned"
               /\ ~call_out.result
               /\ ~HasEvent("button")
               /\ ~HasEvent("button:none")
               /\ NoClickAttempt)
    /\ [][call_pc = "read_back" =>
             IF call_in.read_back.ok
             THEN /\ call_pc' = "find_button"
                  /\ ~call_out'.done
                  /\ call_out'.read = call_in.read_back.text
             ELSE /\ call_pc' = "returned"
                  /\ ~call_out'.result]_vars

\* the value read back differed from the text written; the control was
\* clicked and true was returned
C21_Witness ==
    /\ call_pc = "returned"
    /\ HasEvent("read_back")
    /\ call_out.read # call_out.field
    /\ call_out.read # <<>>
    /\ HasEvent("force_click")
    /\ call_out.result

\* the number of times step name was run for the post being processed
TimesRun(name) == Cardinality({i \in 1..Len(steps) : steps[i] = name})

\* C22: within one pass nothing is retried.  No article number is handed to
\* visit_post twice; for the post being processed visit_post,
\* get_chatgpt_comment and post_comment have each run at most once; the steps
\* of a post only grow by a step not yet run for it, until the next, not yet
\* visited number starts a new post; and after a generation or a submission
\* that failed the only steps are the visit of another number or the end of
\* the pass.
C22_NoRetryWithinPass ==
    /\ [](/\ \A i, j \in 1..Len(visited) : i # j => visited[i] # visited[j]
          /\ \A name \in {"visit", "generate", "post"} : TimesRun(name) <= 1
          /\ (steps # <<>>) => (visited # <<>> /\ steps[1] = "visit"))
    /\ [][/\ visited' # visited =>
               \/ /\ visited' = <<>>
                  /\ steps' = <<>>
               \/ /\ Len(visited') = Len(visited) + 1
                  /\ SubSeq(visited', 1, Len(visited)) = visited
                  /\ visited'[Len(visited')] \notin Elements(visited)
                  /\ steps' = <<"visit">>
          /\ (visited' = visited /\ steps' # steps) =>
               /\ Len(steps') = Len(steps) + 1
               /\ SubSeq(steps', 1, Len(steps)) = steps
               /\ steps'[Len(steps')] \notin Elements(steps)
          /\ (/\ pc = "loop_head"
              /\ \/ last_llm.called /\ GenerationFailed(last_llm)
                 \/ last_post.called /\ ~last_post.returned) =>
               \/ pc' = "board_return"
               \/ /\ Len(visited') = Len(visited) + 1
                  /\ visited'[Len(visited')] \notin Elements(visited)]_vars

\* the submission for the first number failed and the second, different
\* number has been visited
C22_Witness ==
    /\ Len(visited) = 2
    /\ visited[1] # visited[2]
    /\ steps = <<"visit">>
    /\ "post" \in called
    /\ successes = 0
    /\ Len(collected_numbers) > Len(article_list)

\* C23: the text handed to post_comment is the text the approval gate
\* returned for the same post: the generator's sanitized comment unchanged in
\* auto-mode and after Y, the operator's replacement as typed (not sanitized,
\* no marker) after FIX; in auto-mode it is non-empty and ends with the
\* marker.  post_comment is called from the state the gate left, and from no
\* other.
C23_SubmittedTextIsGateText ==
    /\ [](pc = "post" =>
             /\ user_approved
             /\ last_llm.called
             /\ generated = get_chatgpt_comment(last_llm)
             /\ generated # <<>>
             /\ IF AUTO_MODE \/ response = Yes
                THEN comment = generated
                ELSE response = Fix /\ comment = stdin_line
             /\ AUTO_MODE => comment # <<>> /\ MarkedAllowed(comment))
    /\ [][/\ pc = "post" =>
               /\ last_post'.called
               /\ steps' = Append(steps, "post")
               /\ visited' = visited
          /\ (last_post'.called /\ ~last_post.called) => pc = "post"]_vars

\* the operator typed FIX and a replacement with a symbol and a leading
\* blank; that line is about to be submitted as typed
C23_Witness ==
    /\ pc = "post"
    /\ reprompts = 0
    /\ response = Fix
    /\ stdin_line = <<" ", "~", "ga">>
    /\ comment = stdin_line
    /\ generated # comment
    /\ ~MarkedAllowed(comment)

\* how far the run is from its end: boards not yet started, the phase of the
\* current pass, listing pages not yet scanned, collected numbers not yet
\* dealt with, the steps left for the current post, the invalid answers the
\* operator may still give at the current prompt
Phase ==
    CASE pc = "select_auto" -> 6
      [] pc = "goto_board" -> 5
      [] pc = "scan" -> 4
      [] pc \in {"loop_head", "generate", "confirm", "fix_input", "post"} -> 3
      [] pc = "board_return" -> 2
      [] pc = "main_loop" -> 1
      [] OTHER -> 0

StepsLeft ==
    CASE pc = "loop_head" -> 5
      [] pc = "generate" -> 4
      [] pc = "confirm" -> 3
      [] pc = "fix_input" -> 2
      [] pc = "post" -> 1
      [] OTHER -> 0

PagesLeft == IF pc = "scan" THEN MAX_PAGES_TO_SCAN + 1 - page_idx ELSE 0

NumbersLeft == IF Phase = 3 THEN Len(article_list) + 1 - idx ELSE 0

AnswersLeft == IF pc = "confirm" THEN MaxReprompts - reprompts ELSE 0

\* the step brings the run closer to its end: the tuple (boards left, Phase,
\* PagesLeft, NumbersLeft, StepsLeft, AnswersLeft) decreases in the
\* lexicographic order
Closer ==
    \/ board_idx' > board_idx
    \/ /\ board_idx' = board_idx
       /\ \/ Phase' < Phase
          \/ /\ Phase' = Phase
             /\ \/ PagesLeft' < PagesLeft
                \/ /\ PagesLeft' = PagesLeft
                   /\ \/ NumbersLeft' < NumbersLeft
                      \/ /\ NumbersLeft' = NumbersLeft
                         /\ \/ StepsLeft' < StepsLeft
                            \/ /\ StepsLeft' = StepsLeft
                               /\ AnswersLeft' < AnswersLeft

Min(a, b) == IF a <= b THEN a ELSE b

\* the handler the run stands at can take a step, unless main has ended: a
\* handler with a condition has one of its branches enabled (for the loop's
\* head: the loop ends or the condition of the next visit holds), the others
\* (one call, one outcome) have no condition
CanStep ==
    CASE pc = "main_loop" -> ENABLED StartBoard \/ ENABLED FinishRun
      [] pc = "scan" -> ENABLED CollectDone \/ ENABLED ScanPage
      [] pc = "loop_head" ->
            \/ ENABLED ExitLoop
            \/ idx <= Len(article_list) /\ ~LoopBreaks(p_comment_count, attempts)
      [] pc = "confirm" -> ENABLED AutoApprove \/ ENABLED PromptUser
      [] OTHER -> pc \in {"select_auto", "goto_board", "generate", "fix_input",
                          "post", "board_return", "done"}

\* C24: every run terminates when every call returns and the operator
\* answers Y, N or FIX after finitely many invalid answers.  Until main has
\* ended some step can be taken and every step brings the run closer to its
\* end (the measure above decreases in a well-founded order); a pass scans
\* at most MAX_PAGES_TO_SCAN listing pages and runs at most
\* min(number of collected numbers, max_attempts_per_board) iterations of its
\* loop; main starts at most one pass per configured board, and nothing
\* happens after main has ended.
C24_RunTerminates ==
    /\ [](/\ CanStep
          /\ PagesLeft >= 0
          /\ NumbersLeft >= 0
          /\ AnswersLeft >= 0
          /\ page_idx <= MAX_PAGES_TO_SCAN + 1
          /\ attempts = Len(visited)
          /\ attempts <= Min(Len(article_list), max_attempts_per_board)
          /\ Len(article_list) <= Len(collected_numbers)
          /\ board_idx <= NumBoards)
    /\ [][/\ Closer
          /\ pc # "done"
          /\ pc = "scan" /\ pc' = "scan" => page_idx' = page_idx + 1
          /\ attempts' # attempts => attempts' = 0 \/ attempts' = attempts + 1
          /\ (board_idx' # board_idx \/ pc' = "goto_board") =>
               /\ pc = "main_loop"
               /\ pc' = "goto_board"
               /\ board_idx' = board_idx + 1]_vars

\* main has ended after a pass over each board; the last pass scanned every
\* listing page and used up its attempts with numbers left over
C24_Witness ==
    /\ pc = "done"
    /\ board_idx = NumBoards
    /\ ~should_exit
    /\ page_idx = MAX_PAGES_TO_SCAN + 1
    /\ Len(visited) = max_attempts_per_board
    /\ Len(article_list) > max_attempts_per_board

====
